---- MODULE Spec2Model ----
(***************************************************************************)
(* The traversal step executor of edma (db/src/process/exec.rs): a         *)
(* StepExecutor interprets a bytecode program against a vertex store and   *)
(* is consumed through done / to_list / next / has_next.                   *)
(***************************************************************************)
EXTENDS Integers, Sequences, FiniteSets, TLC

\* ------------------------------------------------------------------ bounds
MaxSteps == 3
MaxCalls == 2
MaxStored == 3
MaxNew == 2

\* ------------------------------------------------------------- value model
Keys == {"name", "age"}

StoredIds == 1..MaxStored
NewIds == (MaxStored + 1)..(MaxStored + MaxNew)

EmptyProps == [k \in Keys |-> <<>>]

MkVertex(id, label) == [id |-> id, label |-> label, props |-> EmptyProps]

GNull == [kind |-> "Null", list |-> <<>>, tok |-> "", int |-> 0]
GList(l) == [kind |-> "List", list |-> l, tok |-> "", int |-> 0]
GVertex(vx) == [kind |-> "Vertex", list |-> <<vx>>, tok |-> "", int |-> 0]
GTerminator(t) == [kind |-> "Terminator", list |-> <<>>, tok |-> t, int |-> 0]
GInt64(n) == [kind |-> "Int64", list |-> <<>>, tok |-> "", int |-> n]

CardinalityMarkers == {"Cardinality::List", "Cardinality::Single"}
is_cardinality(a) == a \in CardinalityMarkers

Instr(op, args) == [operator |-> op, args |-> args]

\* ----------------------------------------------------- ExecutionResult
IxResult_new(op, value) == [source |-> op, value |-> value]
IxResult_default == [source |-> "", value |-> GList(<<>>)]
ExecutionResult_default ==
  [vertices |-> IxResult_default, new_vertices |-> IxResult_default,
   edges |-> IxResult_default, new_edges |-> IxResult_default,
   other |-> IxResult_default]

get_from_source(res, s) ==
  CASE s = "V" -> res.vertices
    [] s = "addV" -> res.new_vertices
    [] s = "E" -> res.edges
    [] s = "addE" -> res.new_edges
    [] OTHER -> res.other

\* ------------------------------------------------------------------ util
is_streaming_source_step(s) == s \in {"V", "E", "addV", "addE"}
is_reducing_barrier_step(s) == s = "count"

\* ------------------------------------------------------ VertexRepository
RECURSIVE SeqById(_)
SeqById(S) ==
  IF S = {} THEN <<>>
  ELSE LET m == CHOOSE x \in S : \A y \in S : x.id <= y.id
       IN <<m>> \o SeqById(S \ {m})

Stored(db, id) == CHOOSE w \in db : w.id = id
Exists(db, id) == \E w \in db : w.id = id

\* read_vertices: scan of the stored vertices in key order
repo_v(db, args) == SeqById(db)

\* create_vertex: a new id, the label argument, written to storage
repo_new_v(db, args, id) ==
  LET vertex == MkVertex(id, IF args = <<>> THEN "vertex" ELSE args[1])
  IN [vertex |-> vertex, db |-> db \cup {vertex}]

\* set_property: read-modify-write of one stored vertex; NotFound when absent
repo_property(vertex, db, args) ==
  IF ~Exists(db, vertex.id) \/ Len(args) < 2
  THEN [ok |-> FALSE, vertex |-> vertex, db |-> db]
  ELSE LET old == Stored(db, vertex.id)
           new == [old EXCEPT !.props[args[1]] = <<args[2]>>]
       IN [ok |-> TRUE, vertex |-> new, db |-> (db \ {old}) \cup {new}]

\* a property write with no target vertex: NotFound, never an implicit create
repo_new_property(db, args) ==
  [ok |-> FALSE, vertex |-> MkVertex(0, ""), db |-> db]

\* read_properties: the vertex augmented with its stored property set
repo_properties(vertex, db, args) ==
  IF Exists(db, vertex.id) THEN Stored(db, vertex.id) ELSE vertex

\* ---------------------------------------------------------- StepExecutor
\* what a step handler leaves behind: the executor, the storage after the
\* step's commit, its IxResult, and whether it panicked (unwrap / unimplemented)
Out(self, db, ix) == [self |-> self, db |-> db, ix |-> ix, panic |-> FALSE]
Panic(self, db) == [self |-> self, db |-> db, ix |-> IxResult_default, panic |-> TRUE]

set_terminator(self, token) == [self EXCEPT !.terminator = token]

\* List::from_gvalue / get::<List>() of a slot value
as_list(value) == [ok |-> value.kind = "List", list |-> value.list]

source_value(self, src) == as_list(get_from_source(self.result, src).value)

\* the optional condition of the two list readers: None, or the label closure
CondNone == [some |-> FALSE, label |-> ""]
CondLabel(label) == [some |-> TRUE, label |-> label]
Keeps(cond, x) == ~cond.some \/ x.label = cond.label
select_list(l, cond) ==
  IF ~l.ok THEN l
  ELSE [ok |-> TRUE, list |-> SelectSeq(l.list, LAMBDA x : Keeps(cond, x))]

raw_list_from_source(self, src, cond) ==
  select_list(as_list(get_from_source(self.result, src).value), cond)

list_from_source(self, src, cond) ==
  select_list(as_list(get_from_source(self.result, src).value), cond)

v(self, db, args) ==
  Out(set_terminator(self, "Vertex"), db, IxResult_new("V", GList(repo_v(db, args))))

\* mutant of e: the terminator of v is set
e_vertex_terminator(self, db, ids) ==
  Out(set_terminator(self, "Vertex"), db, IxResult_new("E", GNull))

e(self, db, ids) ==
  Out(set_terminator(self, "Edge"), db, IxResult_new("E", GNull))

\* add_v after new_v: push onto the list of the addV slot, commit, terminator
add_v_push(self, db, created, vertices) ==
  IF ~vertices.ok THEN Panic(self, db)
  ELSE Out(set_terminator([self EXCEPT !.result.new_vertices.value =
                                          GList(Append(vertices.list, created.vertex))],
                          "Vertex"),
           created.db,
           IxResult_new("addV", GList(Append(vertices.list, created.vertex))))

\* mutant of add_v: the new vertex replaces the list instead of extending it
add_v_replacing(self, db, args, id) ==
  add_v_push(self, db, repo_new_v(db, args, id), [ok |-> TRUE, list |-> <<>>])

add_v(self, db, args, id) ==
  add_v_push(self, db, repo_new_v(db, args, id), source_value(self, "addV"))

add_e(self, db, labels) ==
  Out(set_terminator(self, "Edge"), db, IxResult_new("addE", GNull))

property_with_cardinality(self, db, args) ==
  Out(self, db, IxResult_new("property", GNull))

\* the loop of vertex_property: one read-modify-write per streamed vertex
property_pushed(acc, r) ==
  [ok |-> r.ok, list |-> Append(acc.list, r.vertex), db |-> r.db]
RECURSIVE PropertyEach(_, _, _)
PropertyEach(list, acc, args) ==
  IF list = <<>> \/ ~acc.ok THEN acc
  ELSE PropertyEach(Tail(list),
                    property_pushed(acc, repo_property(Head(list), acc.db, args)),
                    args)

new_property_pushed(r) == [ok |-> r.ok, list |-> <<r.vertex>>, db |-> r.db]

\* vertex_property after its match: commit and the list result
vertex_property_commit(self, db, r) ==
  IF ~r.ok THEN Panic(self, db)
  ELSE Out(self, r.db, IxResult_new("vertex_property", GList(r.list)))

vertex_property_match(self, db, args, vertices) ==
  IF ~vertices.ok THEN Panic(self, db)
  ELSE IF vertices.list = <<>>
  THEN vertex_property_commit(self, db, new_property_pushed(repo_new_property(db, args)))
  ELSE vertex_property_commit(self, db,
         PropertyEach(vertices.list, [ok |-> TRUE, list |-> <<>>, db |-> db], args))

vertex_property(self, db, args) ==
  vertex_property_match(self, db, args, list_from_source(self, self.source, CondNone))

\* mutant of add_vertex_property_mutate: the updated vertex is written over
\* the first vertex of the list, not the last
add_vertex_property_mutate_first(self, db, vertices, r) ==
  IF ~r.ok THEN Panic(self, db)
  ELSE Out([self EXCEPT !.result.new_vertices.value =
                          GList([vertices EXCEPT ![1] = r.vertex])],
           r.db, IxResult_new("vertex_property", GVertex(r.vertex)))

\* add_vertex_property after the property write: mutate the last vertex
add_vertex_property_mutate(self, db, vertices, r) ==
  IF ~r.ok THEN Panic(self, db)
  ELSE Out([self EXCEPT !.result.new_vertices.value =
                          GList([vertices EXCEPT ![Len(vertices)] = r.vertex])],
           r.db, IxResult_new("vertex_property", GVertex(r.vertex)))

\* the pushing variant of that mutation
add_vertex_property_push(self, db, vertices, r) ==
  IF ~r.ok THEN Panic(self, db)
  ELSE Out([self EXCEPT !.result.new_vertices.value = GList(Append(vertices, r.vertex))],
           r.db, IxResult_new("vertex_property", GVertex(r.vertex)))

add_vertex_property_last(self, db, args, value) ==
  IF value.kind # "List" \/ value.list = <<>> THEN Panic(self, db)
  ELSE add_vertex_property_mutate(self, db, value.list,
         repo_property(value.list[Len(value.list)], db, args))

add_vertex_property_last_push(self, db, args, value) ==
  IF value.kind # "List" \/ value.list = <<>> THEN Panic(self, db)
  ELSE add_vertex_property_push(self, db, value.list,
         repo_property(value.list[Len(value.list)], db, args))

\* mutant of add_vertex_property: the updated vertex is pushed, not written over the last
add_vertex_property_pushing(self, db, args) ==
  add_vertex_property_last_push(self, db, args,
                                get_from_source(self.result, self.source).value)

add_vertex_property(self, db, args) ==
  add_vertex_property_last(self, db, args, get_from_source(self.result, self.source).value)

vertices_properties_store(self, db, vertices, result) ==
  Out(set_terminator(IF vertices # <<>>
                     THEN [self EXCEPT !.result.vertices.value = GList(result)]
                     ELSE self,
                     "VertexProperty"),
      db, IxResult_new("properties", GList(result)))

vertices_properties_each(self, db, args, vertices) ==
  IF ~vertices.ok THEN Panic(self, db)
  ELSE vertices_properties_store(self, db, vertices.list,
         [i \in 1..Len(vertices.list) |-> repo_properties(vertices.list[i], db, args)])

vertices_properties(self, db, args) ==
  vertices_properties_each(self, db, args, list_from_source(self, self.source, CondNone))

new_vertex_properties_store(self, db, result) ==
  Out(set_terminator([self EXCEPT !.result.vertices.value = result], "VertexProperty"),
      db, IxResult_new("properties", result))

new_vertex_properties_last(self, db, args, new_vertices) ==
  IF ~new_vertices.ok \/ new_vertices.list = <<>> THEN Panic(self, db)
  ELSE new_vertex_properties_store(self, db,
         GVertex(repo_properties(new_vertices.list[Len(new_vertices.list)], db, args)))

new_vertex_properties(self, db, args) ==
  new_vertex_properties_last(self, db, args, source_value(self, self.source))

properties(self, db, args) ==
  CASE self.source = "V" -> vertices_properties(self, db, args)
    [] self.source = "addV" -> new_vertex_properties(self, db, args)
    [] OTHER -> Panic(self, db)

property(self, db, args) ==
  IF args = <<>> THEN Panic(self, db)
  ELSE IF is_cardinality(args[1]) THEN property_with_cardinality(self, db, args)
  ELSE CASE self.source = "V" -> vertex_property(self, db, args)
         [] self.source = "addV" -> add_vertex_property(self, db, args)
         [] OTHER -> Panic(self, db)

\* mutant of count: the snapshot is taken but the terminator is not reset
count_keeping_terminator(self, db, args) ==
  Out(self, db, IxResult_new("count", GTerminator(self.terminator)))

count(self, db, args) ==
  Out(set_terminator(self, "Int64"), db,
      IxResult_new("count", GTerminator(self.terminator)))

\* has_label, first half: the filtered list of slot V written to vertices
has_label_vertices(self, db, vertices) ==
  IF ~vertices.ok THEN Panic(self, db)
  ELSE Out([self EXCEPT !.result.vertices.value = GList(vertices.list)], db,
           IxResult_new("has_label", GNull))

\* has_label, second half: the filtered list of slot addV written to new_vertices
has_label_new_vertices(self, db, new_vertices) ==
  IF ~new_vertices.ok THEN Panic(self, db)
  ELSE Out([self EXCEPT !.result.new_vertices.value = GList(new_vertices.list)], db,
           IxResult_new("has_label", GNull))

has_label_then(o, cond) ==
  IF o.panic THEN o
  ELSE has_label_new_vertices(o.self, o.db, raw_list_from_source(o.self, "addV", cond))

has_label_with(self, db, args, cond) ==
  IF args = <<>> THEN Out(self, db, IxResult_new("has_label", GNull))
  ELSE has_label_then(
         has_label_vertices(self, db, raw_list_from_source(self, "V", cond)), cond)

\* an empty filtered list is a failure
nonempty_list(l) == [ok |-> l.ok /\ l.list # <<>>, list |-> l.list]

\* mutant of has_label: the label condition is not applied
has_label_unfiltered(self, db, args) == has_label_with(self, db, args, CondNone)

\* mutant of has_label: an empty filtered stream is treated as a failure
has_label_nonempty(self, db, args) ==
  IF args = <<>> THEN Out(self, db, IxResult_new("has_label", GNull))
  ELSE has_label_then(
         has_label_vertices(self, db,
           nonempty_list(raw_list_from_source(self, "V", CondLabel(args[1])))),
         CondLabel(args[1]))

has_label(self, db, args) ==
  has_label_with(self, db, args, IF args = <<>> THEN CondNone ELSE CondLabel(args[1]))

has_id(self, db, args) == Panic(self, db)

\* the assignment of a streaming step's IxResult to its slot
slot_set(self, operator, ix) ==
  CASE operator = "V" -> [self EXCEPT !.result.vertices = ix]
    [] operator = "E" -> [self EXCEPT !.result.edges = ix]
    [] operator = "addV" -> [self EXCEPT !.result.new_vertices = ix]
    [] operator = "addE" -> [self EXCEPT !.result.new_edges = ix]
    [] OTHER -> self

\* mutant of streamed: the slot is assigned but source is not
streamed_keeping_source(operator, o) ==
  IF o.panic THEN o ELSE [o EXCEPT !.self = slot_set(o.self, operator, o.ix)]

streamed(operator, o) ==
  IF o.panic THEN o
  ELSE [o EXCEPT !.self = [slot_set(o.self, operator, o.ix) EXCEPT !.source = operator]]

process_streaming_step(self, db, step, id) ==
  streamed(step.operator,
           CASE step.operator = "V" -> v(self, db, step.args)
             [] step.operator = "E" -> e(self, db, step.args)
             [] step.operator = "addV" -> add_v(self, db, step.args, id)
             [] step.operator = "addE" -> add_e(self, db, step.args)
             [] OTHER -> Panic(self, db))

\* self.result.other = result
into_other(o) == IF o.panic THEN o ELSE [o EXCEPT !.self.result.other = o.ix]

process_reducing_barrier_step(self, db, step) ==
  into_other(CASE step.operator = "count" -> count(self, db, step.args)
               [] OTHER -> Panic(self, db))

process_step(self, db, step) ==
  into_other(CASE step.operator = "property" -> property(self, db, step.args)
               [] step.operator = "properties" -> properties(self, db, step.args)
               [] step.operator = "count" -> count(self, db, step.args)
               [] step.operator = "hasLabel" -> has_label(self, db, step.args)
               [] step.operator = "hasIds" -> has_id(self, db, step.args)
               [] OTHER -> Panic(self, db))

\* one iteration of the loop of execute
execute_step(self, db, step, id) ==
  IF is_streaming_source_step(step.operator)
  THEN process_streaming_step(self, db, step, id)
  ELSE IF is_reducing_barrier_step(step.operator)
  THEN process_reducing_barrier_step(self, db, step)
  ELSE process_step(self, db, step)

\* the transaction of a step: v, add_v, vertex_property and
\* add_vertex_property open one with mut_tx
tx_opened(self, step) ==
  \/ step.operator \in {"V", "addV"}
  \/ /\ step.operator = "property"
     /\ step.args # <<>>
     /\ ~is_cardinality(step.args[1])
     /\ self.source \in {"V", "addV"}

\* the state that transaction is in when the handler returns or unwinds:
\* "committed" after tx.commit(); "open" when it goes out of scope with neither
\* commit nor rollback called on it (v always, the others when an unwrap
\* panics); "none" when the step opened no transaction
tx_state(self, step, panic) ==
  IF ~tx_opened(self, step) THEN "none"
  ELSE IF step.operator = "V" \/ panic THEN "open"
  ELSE "committed"

\* ---------------------------------------------------------- StepCollector
Mismatch == [ok |-> FALSE, value |-> GNull]
collected_if(ok, value) == IF ok THEN [ok |-> TRUE, value |-> value] ELSE Mismatch

collect_stream(self, token) ==
  CASE token = "Vertex" ->
         collected_if(get_from_source(self.result, self.source).value.kind = "List",
                      get_from_source(self.result, self.source).value)
    [] token = "Edge" ->
         collected_if(get_from_source(self.result, self.source).value.kind # "Null",
                      get_from_source(self.result, self.source).value)
    [] token = "VertexProperty" -> collected_if(TRUE, self.result.vertices.value)
    [] OTHER -> Mismatch

count_of(inner) == collected_if(inner.ok, GInt64(Len(inner.value.list)))

collect(self, token) ==
  IF token = "Int64"
  THEN IF self.result.other.value.kind = "Terminator"
       THEN count_of(collect_stream(self, self.result.other.value.tok))
       ELSE Mismatch
  ELSE collect_stream(self, token)

\* -------------------------------------------------- consumer operations
\* execute's unwrap of the collector, then to_list's unwrap of the List
to_list_value(exec) ==
  [ok |-> exec.ok /\ exec.value.kind = "List", value |-> exec.value,
   list |-> exec.value.list]

\* the tail of next: the item under the cursor, and the advanced cursor
next_value(index, list) ==
  IF index < Len(list)
  THEN [item |-> <<list[index + 1]>>, iter_index |-> index + 1]
  ELSE [item |-> <<>>, iter_index |-> index]

\* the tail of has_next
has_next_value(index, list) == index + 1 < Len(list)

\* ---------------------------------------------------------------- state
VARIABLES bytecode, result, terminator, source, iter_index, store,
          call, pc, calls, ret, progs,
          active_menu_item, keys, event_state, focus

vars == <<bytecode, result, terminator, source, iter_index, store,
          call, pc, calls, ret, progs,
          active_menu_item, keys, event_state, focus>>

\* the menu component of the terminal frontend: its field, the keys it was
\* sent, and what its last event and active_focus calls returned
menuVars == <<active_menu_item, keys, event_state, focus>>
DEFAULT_ACTIVE_TAB == "Home"
MenuContainerComponent_new ==
  /\ active_menu_item = DEFAULT_ACTIVE_TAB
  /\ keys = <<>>
  /\ event_state = "none"
  /\ focus = "none"

Instructions ==
  {Instr("V", <<>>), Instr("E", <<>>), Instr("addV", <<"person">>),
   Instr("addE", <<>>),
   Instr("property", <<"name", "alice">>), Instr("property", <<"age", "30">>),
   Instr("property", <<"Cardinality::List", "name", "alice">>),
   Instr("property", <<"Cardinality::List", "name", "bob">>),
   Instr("property", <<"Cardinality::Single", "name", "alice">>),
   Instr("property", <<"Cardinality::Single", "name", "bob">>),
   Instr("properties", <<>>), Instr("count", <<>>),
   Instr("hasLabel", <<"person">>), Instr("hasIds", <<>>), Instr("out", <<>>)}

Programs == UNION {[1..n -> Instructions] : n \in 0..MaxSteps}

StoredVertex(i) == MkVertex(i, IF i % 2 = 1 THEN "person" ELSE "dog")
InitStores == {{}, {StoredVertex(2)}, {StoredVertex(i) : i \in StoredIds}}

ConsumerOps == {"done", "to_list", "next", "has_next"}

RetNone == [status |-> "none", op |-> "", err |-> "", value |-> GNull,
            list |-> <<>>, item |-> <<>>, bool |-> FALSE]
RetPanic(op) == [RetNone EXCEPT !.status = "panic", !.op = op]

Self == [result |-> result, terminator |-> terminator, source |-> source]
FreeIds(db) == {i \in NewIds : ~Exists(db, i)}

\* a second kind of client: programs that run addV concurrently, each on its
\* own StepExecutor and in its own transaction against the shared store
Procs == {"a", "b"}
Labels == {"person", "dog"}
ProgNew(label) ==
  [bytecode |-> <<Instr("addV", <<label>>)>>,
   self |-> [result |-> ExecutionResult_default, terminator |-> "Null", source |-> ""],
   pending |-> [result |-> ExecutionResult_default, terminator |-> "Null", source |-> ""],
   writes |-> {}, pc |-> "start", status |-> "none", err |-> ""]
ProgsIdle == [p \in Procs |-> ProgNew("person")]

\* StepExecutor::new over a store that already holds some vertices
Init ==
  /\ bytecode \in Programs
  /\ store \in InitStores
  /\ result = ExecutionResult_default
  /\ terminator = "Null"
  /\ source = ""
  /\ iter_index = 0
  /\ call = "none"
  /\ pc = 0
  /\ calls = 0
  /\ ret = RetNone
  /\ progs = ProgsIdle
  /\ MenuContainerComponent_new

Alive == ret.status # "panic"

\* a consumer operation is entered; it starts execute at the first instruction
Invoke ==
  /\ Alive /\ call = "none" /\ calls < MaxCalls
  /\ \E op \in ConsumerOps : call' = op
  /\ pc' = 0
  /\ calls' = calls + 1
  /\ UNCHANGED <<bytecode, result, terminator, source, iter_index, store, ret, progs>>
  /\ UNCHANGED menuVars

Running == Alive /\ call # "none" /\ pc < Len(bytecode)
Cur == bytecode[pc + 1]

\* the state after one instruction; a panic ends the call and the executor
Stepped(o) ==
  /\ result' = o.self.result
  /\ terminator' = o.self.terminator
  /\ source' = o.self.source
  /\ store' = o.db
  /\ IF o.panic
     THEN ret' = RetPanic(call) /\ call' = "none" /\ pc' = pc
     ELSE pc' = pc + 1 /\ UNCHANGED <<ret, call>>
  /\ UNCHANGED <<bytecode, iter_index, calls, progs>>
  /\ UNCHANGED menuVars

ExecStep(id) == Stepped(execute_step(Self, store, Cur, id))

Step_V == Running /\ Cur.operator = "V" /\ ExecStep(0)
Step_E == Running /\ Cur.operator = "E" /\ ExecStep(0)
Step_addV == Running /\ Cur.operator = "addV" /\ \E id \in FreeIds(store) : ExecStep(id)
Step_addE == Running /\ Cur.operator = "addE" /\ ExecStep(0)
Step_property == Running /\ Cur.operator = "property" /\ ExecStep(0)
Step_properties == Running /\ Cur.operator = "properties" /\ ExecStep(0)
Step_count == Running /\ Cur.operator = "count" /\ ExecStep(0)
Step_hasLabel == Running /\ Cur.operator = "hasLabel" /\ ExecStep(0)
Step_hasIds == Running /\ Cur.operator = "hasIds" /\ ExecStep(0)

RecognizedOperators ==
  {"V", "E", "addV", "addE", "property", "properties", "count", "hasLabel", "hasIds"}

Step_unsupported == Running /\ Cur.operator \notin RecognizedOperators /\ ExecStep(0)

Collecting(op) == Alive /\ call = op /\ pc = Len(bytecode)

\* the end of a consumer operation: what it returns
Finish(op, r) ==
  /\ ret' = [r EXCEPT !.op = op]
  /\ call' = "none"
  /\ UNCHANGED <<bytecode, result, terminator, source, store, pc, calls, progs>>
  /\ UNCHANGED menuVars

RetValue(exec) == [RetNone EXCEPT !.status = "ok", !.value = exec.value]
RetList(l) == [RetNone EXCEPT !.status = "ok", !.value = l.value, !.list = l.list]

done_return(exec) ==
  IF ~exec.ok THEN Finish("done", RetPanic("done")) ELSE Finish("done", RetValue(exec))

done ==
  /\ Collecting("done")
  /\ done_return(collect(Self, terminator))
  /\ UNCHANGED iter_index

to_list_return(l) ==
  IF ~l.ok THEN Finish("to_list", RetPanic("to_list")) ELSE Finish("to_list", RetList(l))

to_list ==
  /\ Collecting("to_list")
  /\ to_list_return(to_list_value(collect(Self, terminator)))
  /\ UNCHANGED iter_index

next_item(l, n) ==
  /\ Finish("next", [RetList(l) EXCEPT !.item = n.item])
  /\ iter_index' = n.iter_index

next_return(l) ==
  IF ~l.ok THEN Finish("next", RetPanic("next")) /\ UNCHANGED iter_index
  ELSE next_item(l, next_value(iter_index, l.list))

next ==
  /\ Collecting("next")
  /\ next_return(to_list_value(collect(Self, terminator)))

has_next_return(l) ==
  IF ~l.ok THEN Finish("has_next", RetPanic("has_next"))
  ELSE Finish("has_next", [RetList(l) EXCEPT !.bool = has_next_value(iter_index, l.list)])

has_next ==
  /\ Collecting("has_next")
  /\ has_next_return(to_list_value(collect(Self, terminator)))
  /\ UNCHANGED iter_index

Next ==
  \/ Invoke
  \/ Step_V \/ Step_E \/ Step_addV \/ Step_addE
  \/ Step_property \/ Step_properties \/ Step_count
  \/ Step_hasLabel \/ Step_hasIds \/ Step_unsupported
  \/ done \/ to_list \/ next \/ has_next

Spec == Init /\ [][Next]_vars

\* ------------------------------------------- concurrent addV programs
\* Each program opens a read-write transaction on the shared optimistic
\* store, creates its vertex inside it, and commits; a commit fails when a
\* key it wrote was committed by another transaction in the meantime.
InitConc ==
  /\ bytecode = <<>>
  /\ store \in InitStores
  /\ result = ExecutionResult_default
  /\ terminator = "Null"
  /\ source = ""
  /\ iter_index = 0
  /\ call = "none"
  /\ pc = 0
  /\ calls = 0
  /\ ret = RetNone
  /\ progs \in [Procs -> {ProgNew(l) : l \in Labels}]
  /\ MenuContainerComponent_new

seqVars == <<bytecode, result, terminator, source, iter_index, call, pc, calls, ret,
            active_menu_item, keys, event_state, focus>>

Conflicts(writes, db) == \E w \in writes : Exists(db, w.id)

\* what the step holds before its commit: the writes of its transaction
add_v_written(p, o) ==
  progs' = [progs EXCEPT ![p].pending = o.self, ![p].writes = o.db \ store,
                         ![p].pc = "written"]

\* add_v up to the commit: mut_tx, new_v into the transaction, the push
add_v_write(p) ==
  /\ progs[p].pc = "start"
  /\ \E id \in FreeIds(store) :
       add_v_written(p, process_streaming_step(progs[p].self, store,
                                               progs[p].bytecode[1], id))
  /\ UNCHANGED store
  /\ UNCHANGED seqVars

\* tx.commit().await.unwrap() and the rest of add_v
add_v_commit(p) ==
  /\ progs[p].pc = "written"
  /\ IF Conflicts(progs[p].writes, store)
     THEN /\ progs' = [progs EXCEPT
                        ![p].pc = "done", ![p].status = "panic", ![p].writes = {},
                        ![p].self.result.new_vertices.value =
                          progs[p].pending.result.new_vertices.value]
          /\ UNCHANGED store
     ELSE /\ store' = store \cup progs[p].writes
          /\ progs' = [progs EXCEPT ![p].pc = "done", ![p].status = "ok",
                                    ![p].self = progs[p].pending]
  /\ UNCHANGED seqVars

ConcWrite == \E p \in Procs : add_v_write(p)
ConcCommit == \E p \in Procs : add_v_commit(p)
NextConc == ConcWrite \/ ConcCommit

SpecConc == InitConc /\ [][NextConc]_vars

\* ------------------------------------------------ MenuContainerComponent
MaxKeys == 4
KeyChars == {"h", "f", "q", "j"}

InitMenu ==
  /\ bytecode = <<>>
  /\ store = {}
  /\ result = ExecutionResult_default
  /\ terminator = "Null"
  /\ source = ""
  /\ iter_index = 0
  /\ call = "none"
  /\ pc = 0
  /\ calls = 0
  /\ ret = RetNone
  /\ progs = ProgsIdle
  /\ MenuContainerComponent_new

executorVars == <<bytecode, result, terminator, source, iter_index, store,
                 call, pc, calls, ret, progs>>

active_focus_value(item) ==
  CASE item = "Home" -> "HomeTabBody"
    [] item = "File" -> "FileTabBody"

set_active(item, active) == active

\* mutant of event_value: both keys select Home
event_value_home(item, key) ==
  IF key = "h" THEN [active_menu_item |-> set_active(item, "Home"), state |-> "Consumed"]
  ELSE IF key = "f"
  THEN [active_menu_item |-> set_active(item, "Home"), state |-> "Consumed"]
  ELSE [active_menu_item |-> item, state |-> "NotConsumed"]

\* event: the component after the key, and the EventState returned
event_value(item, key) ==
  IF key = "h" THEN [active_menu_item |-> set_active(item, "Home"), state |-> "Consumed"]
  ELSE IF key = "f"
  THEN [active_menu_item |-> set_active(item, "File"), state |-> "Consumed"]
  ELSE [active_menu_item |-> item, state |-> "NotConsumed"]

event_return(key, r) ==
  /\ active_menu_item' = r.active_menu_item
  /\ event_state' = r.state
  /\ keys' = Append(keys, key)
  /\ UNCHANGED focus

event ==
  /\ Len(keys) < MaxKeys
  /\ \E key \in KeyChars : event_return(key, event_value(active_menu_item, key))
  /\ UNCHANGED executorVars

active_focus ==
  /\ focus' = active_focus_value(active_menu_item)
  /\ UNCHANGED <<active_menu_item, keys, event_state>>
  /\ UNCHANGED executorVars

NextMenu == event \/ active_focus

SpecMenu == InitMenu /\ [][NextMenu]_vars

TypeOK ==
  /\ call \in ConsumerOps \cup {"none"}
  /\ pc \in 0..Len(bytecode)
  /\ calls \in 0..MaxCalls
  /\ iter_index \in 0..MaxCalls
  /\ terminator \in {"Null", "Vertex", "Edge", "VertexProperty", "Int64"}
  /\ source \in {"", "V", "E", "addV", "addE"}
  /\ ret.status \in {"none", "ok", "panic"}

\* ------------------------------------------------------------ properties
Returned == call = "none" /\ calls >= 1
ReturnedOk == Returned /\ ret.status = "ok"
Executed == Alive /\ calls >= 1 /\ pc = Len(bytecode)
NewInStore == {w \in store : w.id \in NewIds}
OperatorsIn(p, ops) == {i \in 1..Len(p) : p[i].operator \in ops}
NonMutating(p) == OperatorsIn(p, {"addV", "property"}) = {}

\* C1: over a program that collects to a list of n items, next() yields the
\* items in list order and then None, and has_next() is true exactly while
\* the cursor index is below n.
C1_CursorContract ==
  (ReturnedOk /\ NonMutating(bytecode)) =>
    /\ ret.op = "has_next" => (ret.bool <=> iter_index < Len(ret.list))
    /\ ret.op = "next" =>
         IF ret.item = <<>> THEN iter_index >= Len(ret.list)
         ELSE iter_index <= Len(ret.list) /\ ret.item = <<ret.list[iter_index]>>

\* C2: after k >= 1 consumer calls on one executor every addV of the program
\* has been applied to storage exactly once.
C2_MutatingStepsOnce ==
  ReturnedOk => Cardinality(NewInStore) = Cardinality(OperatorsIn(bytecode, {"addV"}))

\* C3: a program holding an operator outside the recognized set, or hasIds,
\* ends in the error UnsupportedOperator returned to the caller.
Unsupported(op) == op \notin RecognizedOperators \/ op = "hasIds"
C3_UnsupportedOperatorError ==
  (Returned /\ \E i \in 1..Len(bytecode) : Unsupported(bytecode[i].operator)) =>
    (ret.status = "error" /\ ret.err = "UnsupportedOperator")

\* C4: addV accumulates. In the execution of a program on a new executor,
\* after the n-th addV step (no hasLabel before it) new_vertices holds exactly
\* n vertices with pairwise distinct ids; and every addV step appends the
\* vertex it created, whose id is new to storage, to the list it found.
Prefix(k, ops) == {i \in 1..k : bytecode[i].operator \in ops}
DistinctIds(list) ==
  \A i, j \in 1..Len(list) : i # j => list[i].id # list[j].id
C4_Count ==
  (Alive /\ calls = 1 /\ Prefix(pc, {"hasLabel"}) = {} /\ Prefix(pc, {"addV"}) # {}) =>
    /\ result.new_vertices.value.kind = "List"
    /\ Len(result.new_vertices.value.list) = Cardinality(Prefix(pc, {"addV"}))
    /\ DistinctIds(result.new_vertices.value.list)
C4_Append ==
  (Running /\ Cur.operator = "addV" /\ pc' = pc + 1) =>
    \E w \in store' \ store :
      /\ ~Exists(store, w.id)
      /\ result'.new_vertices.value.list = Append(result.new_vertices.value.list, w)
C4_AddVAccumulates == []C4_Count /\ [][C4_Append]_vars
C4_Witness ==
  /\ Alive /\ calls = 1 /\ Prefix(pc, {"hasLabel"}) = {}
  /\ Cardinality(Prefix(pc, {"addV"})) = 2
  /\ Len(result.new_vertices.value.list) = 2

\* C5: addV().property("name","alice").property("age",30) creates exactly one
\* vertex, carrying name -> ["alice"] and age -> [30], in new_vertices and in
\* storage, and a V() read of that storage returns it.
ProgramC5 ==
  <<Instr("addV", <<"person">>), Instr("property", <<"name", "alice">>),
    Instr("property", <<"age", "30">>)>>
C5_OneVertexWithProperties ==
  (bytecode = ProgramC5 /\ calls <= 1) =>
    /\ Alive
    /\ (calls = 1 /\ pc = 3) =>
         LET list == result.new_vertices.value.list
             read == repo_v(store, <<>>)
         IN /\ Len(list) = 1
            /\ list[1].props["name"] = <<"alice">>
            /\ list[1].props["age"] = <<"30">>
            /\ NewInStore = {list[1]}
            /\ \E i \in 1..Len(read) : read[i] = list[1]
C5_Witness ==
  bytecode = ProgramC5 /\ calls = 1 /\ pc = 3 /\ ReturnedOk /\ ret.op = "to_list"
    /\ Len(ret.list) = 1 /\ ret.list[1].props["age"] = <<"30">>

\* C6: V().hasLabel(L).count() collects to the number of stored vertices
\* labelled L (2 for v1 person, v2 dog, v3 person and L = person).
ProgramC6 == <<Instr("V", <<>>), Instr("hasLabel", <<"person">>), Instr("count", <<>>)>>
C6_CountOfLabel ==
  (bytecode = ProgramC6 /\ Returned /\ ret.op = "done") =>
    /\ ret.status = "ok"
    /\ ret.value = GInt64(Cardinality({w \in store : w.label = "person"}))
C6_Witness ==
  /\ bytecode = ProgramC6 /\ ReturnedOk /\ ret.op = "done"
  /\ store = {MkVertex(1, "person"), MkVertex(2, "dog"), MkVertex(3, "person")}
  /\ ret.value = GInt64(2)

\* C7: hasLabel with a label no streamed vertex carries completes normally,
\* leaves an empty list in the filtered slot, and V().hasLabel(L) collects to
\* the empty list.
ProgramC7 == <<Instr("V", <<>>), Instr("hasLabel", <<"person">>)>>
NoneLabelled(label) == \A w \in store : w.label # label
C7_NoMatchIsEmptyList ==
  (bytecode = ProgramC7 /\ NoneLabelled("person")) =>
    /\ Alive
    /\ (calls >= 1 /\ pc = 2) => result.vertices.value = GList(<<>>)
    /\ (Returned /\ ret.op \in {"to_list", "done"}) => ret.value = GList(<<>>)
    /\ (Returned /\ ret.op = "to_list") => ret.list = <<>>
C7_Witness ==
  /\ bytecode = ProgramC7 /\ store = {MkVertex(2, "dog")}
  /\ ReturnedOk /\ ret.op = "to_list" /\ ret.list = <<>>
  /\ result.vertices = IxResult_new("V", GList(<<>>))

\* C8: after a program with exactly one streaming source step, the slots of
\* the other origins (among vertices, new_vertices, edges, new_edges) are
\* still in their initial, empty state.
StreamingSources == {"V", "E", "addV", "addE"}
C8_UnrelatedSlotsEmpty ==
  (Executed /\ Cardinality(OperatorsIn(bytecode, StreamingSources)) = 1) =>
    \A s \in StreamingSources :
      OperatorsIn(bytecode, {s}) = {} =>
        get_from_source(result, s) = IxResult_default

\* C9: a property key written twice through the property step with
\* Cardinality::List keeps both values in write order, and with
\* Cardinality::Single keeps the latest only.
ProgramC9(src, c) ==
  <<src, Instr("property", <<c, "name", "alice">>),
         Instr("property", <<c, "name", "bob">>)>>
C9_CardinalityRoundTrip ==
  \A c \in CardinalityMarkers :
    (bytecode = ProgramC9(Instr("addV", <<"person">>), c) /\ calls = 1 /\ Executed) =>
      \A w \in NewInStore :
        w.props["name"] = IF c = "Cardinality::List" THEN <<"alice", "bob">>
                          ELSE <<"bob">>

\* C10: two programs each running addV concurrently never silently lose a
\* vertex: either both vertices are persisted, or the program whose commit
\* conflicts receives the error StorageConflict and the other program's
\* committed vertex is intact.
Created(p) == progs[p].pending.result.new_vertices.value.list
Persisted(p) == \A i \in 1..Len(Created(p)) : Created(p)[i] \in store
C10_NoSilentLoss ==
  (\A p \in Procs : progs[p].pc = "done") =>
    \/ \A p \in Procs : progs[p].status = "ok" /\ Persisted(p)
    \/ \E p \in Procs :
         /\ progs[p].status = "error" /\ progs[p].err = "StorageConflict"
         /\ \A q \in Procs \ {p} : progs[q].status = "ok" /\ Persisted(q)

\* C11: commit granularity is per step. When a step of a program fails on a
\* storage failure (here: the commit of its addV conflicts), none of that
\* step's writes persist, and the caller receives an error and no partial
\* result: the executor holds nothing of the failed step.
StorageFailed(p) == progs[p].pc = "done" /\ progs[p].status # "ok"
InSeq(x, list) == \E i \in 1..Len(list) : list[i] = x
C11_PerStepCommit ==
  \A p \in Procs : StorageFailed(p) =>
    /\ progs[p].status = "error"
    /\ progs[p].self.result = ExecutionResult_default
    /\ \A w \in store :
         InSeq(w, Created(p)) =>
           \E q \in Procs \ {p} : progs[q].status = "ok" /\ InSeq(w, Created(q))

\* C12: every transaction a step opens (V, addV, property with source V or
\* addV) has reached exactly one terminal state, committed or rolled back,
\* when the step returns control, after a step that succeeded and after a
\* step that failed alike.
TxTerminal == {"none", "committed", "rolledback"}
C12_TransactionScoped ==
  /\ (Alive /\ calls >= 1 /\ pc >= 1) =>
       tx_state(Self, bytecode[pc], FALSE) \in TxTerminal
  /\ (~Alive /\ pc < Len(bytecode)) =>
       tx_state(Self, bytecode[pc + 1], TRUE) \in TxTerminal

\* C13: exactly one terminator is live and the last terminator-setting step
\* executed on the executor determines it: Null at the start, Vertex after V
\* or addV, Edge after E or addE, VertexProperty after properties, Int64
\* after count; property and hasLabel leave it as it is.
TerminatorSetting == {"V", "addV", "E", "addE", "properties", "count"}
TokenOf(op) ==
  CASE op \in {"V", "addV"} -> "Vertex"
    [] op \in {"E", "addE"} -> "Edge"
    [] op = "properties" -> "VertexProperty"
    [] op = "count" -> "Int64"
    [] OTHER -> "Null"
Last(S) == CHOOSE x \in S : \A y \in S : y <= x
\* the operator of the most recent step among ops that has been executed:
\* in the prefix of the running execution, else in an earlier, whole one
LastExecuted(ops) ==
  IF Prefix(pc, ops) # {} THEN bytecode[Last(Prefix(pc, ops))].operator
  ELSE IF calls >= 2 /\ Prefix(Len(bytecode), ops) # {}
  THEN bytecode[Last(Prefix(Len(bytecode), ops))].operator
  ELSE ""
C13_LiveTerminator == terminator = TokenOf(LastExecuted(TerminatorSetting))
C13_Witness ==
  /\ Alive /\ calls = 1 /\ pc = 3
  /\ bytecode[1].operator = "V" /\ bytecode[2].operator = "count"
  /\ bytecode[3].operator = "hasLabel"
  /\ terminator = "Int64"

\* C14: with source V, a property(k, v) step whose first argument is no
\* cardinality marker writes the property to exactly the vertices in the
\* vertices stream and to no other vertex, in one transaction committed once;
\* on an empty stream it writes nothing and creates no record.
PropertyOnV ==
  /\ Running /\ Cur.operator = "property" /\ source = "V"
  /\ Len(Cur.args) = 2 /\ ~is_cardinality(Cur.args[1])
StreamIds ==
  {result.vertices.value.list[i].id : i \in 1..Len(result.vertices.value.list)}
C14_Step ==
  PropertyOnV =>
    /\ tx_state(Self, Cur, ~Alive') = "committed"
    /\ {w.id : w \in store'} = {w.id : w \in store}
    /\ \A w \in store : w.id \notin StreamIds => w \in store'
    /\ \A w \in store' : w.id \in StreamIds => w.props[Cur.args[1]] = <<Cur.args[2]>>
C14_PropertyOnStream == [][C14_Step]_vars

\* C15: with source addV, a property(k, v) step is folded into the most
\* recently created vertex only: it changes the last element of new_vertices
\* and nothing else in that list, the length and all earlier elements stay,
\* and no vertex is created; after addV().addV().property(k, v) only the
\* second vertex carries k.
PropertyOnAddV ==
  /\ Running /\ Cur.operator = "property" /\ source = "addV"
  /\ Len(Cur.args) = 2 /\ ~is_cardinality(Cur.args[1])
ProgramC15 ==
  <<Instr("addV", <<"person">>), Instr("addV", <<"person">>),
    Instr("property", <<"name", "alice">>)>>
C15_Step ==
  PropertyOnAddV =>
    LET old == result.new_vertices.value.list
        new == result'.new_vertices.value.list
    IN /\ Len(new) = Len(old)
       /\ \A i \in 1..(Len(old) - 1) : new[i] = old[i]
       /\ {w.id : w \in store'} = {w.id : w \in store}
       /\ pc' = pc + 1 =>
            /\ new[Len(new)].id = old[Len(old)].id
            /\ new[Len(new)].props[Cur.args[1]] = <<Cur.args[2]>>
            /\ new[Len(new)] \in store'
C15_Example ==
  (bytecode = ProgramC15 /\ calls = 1 /\ pc = 3) =>
    /\ Len(result.new_vertices.value.list) = 2
    /\ result.new_vertices.value.list[1].props["name"] = <<>>
    /\ result.new_vertices.value.list[2].props["name"] = <<"alice">>
C15_FoldIntoLast == []C15_Example /\ [][C15_Step]_vars
C15_Witness ==
  /\ bytecode = ProgramC15 /\ calls = 1 /\ pc = 3 /\ Alive
  /\ result.new_vertices.value.list[2].props["name"] = <<"alice">>
  /\ Cardinality(store) = 2

\* C16: accumulator ownership. Once a slot (vertices, new_vertices, edges,
\* new_edges, other) has been filled, a change to it is made only by the
\* operator that owns it, the one recorded as the slot's source operator
\* name, never by a different step.
Slots == {"vertices", "new_vertices", "edges", "new_edges", "other"}
Filled(s) == result[s] # IxResult_default
C16_Step ==
  \A s \in Slots :
    (Filled(s) /\ result'[s] # result[s]) =>
      (Running /\ Cur.operator = result[s].source)
C16_SlotOwnership == [][C16_Step]_vars

\* C17: E and addE are terminator-only steps: either opens no transaction,
\* reads and writes no storage, leaves the vertices and new_vertices slots
\* as they are, and sets the terminator to Edge.
EdgeStep == Running /\ Cur.operator \in {"E", "addE"}
C17_Step ==
  EdgeStep =>
    /\ pc' = pc + 1
    /\ tx_state(Self, Cur, FALSE) = "none"
    /\ store' = store
    /\ result'.vertices = result.vertices
    /\ result'.new_vertices = result.new_vertices
    /\ terminator' = "Edge"
C17_EdgeStepsTerminatorOnly == [][C17_Step]_vars
C17_Witness ==
  /\ Alive /\ calls = 1 /\ pc = 3
  /\ bytecode[1].operator = "V" /\ bytecode[2].operator = "addV"
  /\ bytecode[3].operator \in {"E", "addE"}
  /\ terminator = "Edge"
  /\ result.vertices.value.list # <<>> /\ result.new_vertices.value.list # <<>>

\* C18: source is changed only by streaming source steps. It is the empty
\* string or one of V, E, addV, addE, and equals the operator of the most
\* recently completed streaming source step; count, property, properties
\* and hasLabel leave it as it is.
C18_Source ==
  /\ source \in {""} \cup StreamingSources
  /\ source = LastExecuted(StreamingSources)
C18_Step == (Running /\ Cur.operator \notin StreamingSources) => source' = source
C18_SourceByStreamingSteps == []C18_Source /\ [][C18_Step]_vars
C18_Witness ==
  /\ Alive /\ calls = 1 /\ pc = 3
  /\ bytecode[1].operator = "V" /\ bytecode[2].operator = "addV"
  /\ bytecode[3].operator \in {"count", "property", "properties", "hasLabel"}
  /\ source = "addV"

\* C19: collecting is repeatable. Two successive to_list() calls on one
\* executor, with no other writer in between, return equal lists.
SecondToList ==
  /\ ret.status = "ok" /\ ret.op = "to_list"
  /\ call = "to_list" /\ call' = "none"
C19_Step == SecondToList => (ret'.status = "ok" /\ ret'.list = ret.list)
C19_ToListRepeatable == [][C19_Step]_vars

\* C20: the menu starts with Home active; after any sequence of keys the
\* active item is File if the most recent 'h'/'f' key was 'f' and Home
\* otherwise; a key other than 'h' and 'f' leaves the active item as it is
\* and returns NotConsumed, 'h' and 'f' return Consumed; active_focus() is
\* HomeTabBody exactly when Home is active and FileTabBody exactly when File is.
TabKeys(k) == {i \in 1..Len(k) : k[i] \in {"h", "f"}}
C20_Active ==
  /\ active_menu_item =
       IF TabKeys(keys) # {} /\ keys[Last(TabKeys(keys))] = "f" THEN "File" ELSE "Home"
  /\ keys # <<>> =>
       event_state = IF keys[Len(keys)] \in {"h", "f"} THEN "Consumed" ELSE "NotConsumed"
  /\ active_focus_value(active_menu_item) = "HomeTabBody" <=> active_menu_item = "Home"
  /\ active_focus_value(active_menu_item) = "FileTabBody" <=> active_menu_item = "File"
C20_Step ==
  /\ (keys' # keys /\ keys'[Len(keys')] \notin {"h", "f"}) =>
       active_menu_item' = active_menu_item
  /\ focus' # focus =>
       focus' = IF active_menu_item = "Home" THEN "HomeTabBody" ELSE "FileTabBody"
C20_MenuFollowsKeys == []C20_Active /\ [][C20_Step]_vars
C20_Witness ==
  /\ keys = <<"f", "h", "f", "q">>
  /\ active_menu_item = "File" /\ event_state = "NotConsumed"
  /\ focus = "FileTabBody"
====
